---- MODULE Spec2Model ----
(***************************************************************************)
(* buildpost: the token-budget allocator and diff truncator of             *)
(* buildpost/utils/token_resolver.py (class TokenCounter).                 *)
(*                                                                         *)
(* A text is a sequence of one-character strings.  The state is one        *)
(* TokenCounter object (provider, _encoding), the environment of the       *)
(* tiktoken package with the number of handle constructions attempted in  *)
(* it, the arguments the caller holds, and the outcome of the last call.   *)
(* Further specifications cover one run of the `commit` command of         *)
(* buildpost/cli.py, two callers racing TokenCounter._get_encoding, and    *)
(* the setters of Config (buildpost/utils/config.py).                      *)
(***************************************************************************)
EXTENDS Integers, Sequences, FiniteSets, TLC

VARIABLES
    provider,      \* self.provider
    encoding,      \* self._encoding: None or the cached tiktoken handle
    attempts,      \* how many times tiktoken.get_encoding has been called
    tiktoken_ok,   \* environment: would tiktoken.get_encoding succeed now?
    args,          \* the arguments the caller passes (chosen at start)
    call,          \* the last call: its operation, inputs and outcome
    prev,          \* the call whose output the last call was re-applied to
    opts,          \* commit: --no-commit, --stage-all, --max-tokens given?
    repo,          \* commit: the working tree (staged, unstaged, untracked)
    pc,            \* commit: where the run of the command is
    locals,        \* commit: has_staged, max_tokens, commit_message, choice
    commit_calls,  \* commit: calls of GitParser.commit_changes so far
    threads,       \* callers inside _get_encoding at once: where each one is
    config,        \* Config.data["api"]: provider, model, models, api_key, api_keys
    environ,       \* os.environ: the providers' API-key variables
    stored,        \* the (provider, key) pairs set_api_key was asked to save
    config_calls   \* how many Config setters have been called

counterVars == <<provider, encoding, attempts, tiktoken_ok, args, call, prev>>

commitVars == <<opts, repo, pc, locals, commit_calls>>

raceVars == <<threads>>

configVars == <<config, environ, stored, config_calls>>

vars == <<counterVars, commitVars, raceVars, configVars>>

(***************************************************************************)
(* String literals of the source.                                          *)
(***************************************************************************)
MARKER == <<"d","i","f","f"," ","-","-","g","i","t">>

SUFFIX_DEFAULT == <<"\n","\n",".",".","."," ","(","d","i","f","f"," ","t","r","u","n","c","a","t","e","d"," ","f","o","r"," ","t","o","k","e","n"," ","l","i","m","i","t",")">>

SUFFIX_GENERIC == <<"\n","\n",".",".","."," ","(","d","i","f","f"," ","t","r","u","n","c","a","t","e","d"," ","-"," ","t","o","o"," ","l","a","r","g","e"," ","f","o","r"," ","c","o","n","t","e","x","t"," ","w","i","n","d","o","w",")">>

SUFFIX_FILES == <<"\n","\n",".",".","."," ","(","r","e","m","a","i","n","i","n","g"," ","f","i","l","e","s"," ","t","r","u","n","c","a","t","e","d"," ","-"," ","t","o","o"," ","l","a","r","g","e"," ","f","o","r"," ","c","o","n","t","e","x","t"," ","w","i","n","d","o","w",")">>

NEWLINE == <<"\n">>

EMPTY == <<>>

(***************************************************************************)
(* Python string and list primitives used by the source.                   *)
(***************************************************************************)
\* s[:k] of a sequence: a negative k counts from the end.
Slice(s, k) ==
    IF k >= 0
    THEN SubSeq(s, 1, IF k < Len(s) THEN k ELSE Len(s))
    ELSE SubSeq(s, 1, IF Len(s) + k > 0 THEN Len(s) + k ELSE 0)

\* does pat occur in t starting at index i?
OccursAt(t, pat, i) ==
    /\ i >= 1
    /\ i + Len(pat) - 1 <= Len(t)
    /\ \A j \in 1..Len(pat) : t[i + j - 1] = pat[j]

\* pat in t
Contains(t, pat) == \E i \in 1..Len(t) : OccursAt(t, pat, i)

\* sep.join(parts)
\* parts[lo] sep ... sep parts[hi] (lo <= hi), halving the range
RECURSIVE JoinRange(_, _, _, _)
JoinRange(sep, parts, lo, hi) ==
    IF lo = hi THEN parts[lo]
    ELSE LET mid == (lo + hi) \div 2
         IN  JoinRange(sep, parts, lo, mid) \o sep \o JoinRange(sep, parts, mid + 1, hi)

Join(sep, parts) ==
    IF Len(parts) = 0 THEN EMPTY ELSE JoinRange(sep, parts, 1, Len(parts))

\* t.split('diff --git').  No proper suffix of the marker is a prefix of it,
\* so its occurrences never overlap and the left-to-right scan of str.split
\* cuts at every occurrence.
SplitOnMarker(t) ==
    LET occ    == SelectSeq([i \in 1..Len(t) |-> i],
                            LAMBDA i : OccursAt(t, MARKER, i))
        n      == Len(occ)
        from(k) == IF k = 0 THEN 1 ELSE occ[k] + Len(MARKER)
        upto(k) == IF k = n THEN Len(t) ELSE occ[k + 1] - 1
    IN  [k \in 1..(n + 1) |-> SubSeq(t, from(k - 1), upto(k - 1))]

(***************************************************************************)
(* The tiktoken package (cl100k_base), as the source uses it: get_encoding *)
(* may fail, encode(text) returns a list of tokens or raises, decode joins *)
(* tokens back into text.  The vocabulary is abstracted to the classes of  *)
(* the encoding's pre-tokenizer: a token is a maximal run of characters of *)
(* one class (letters, white space, other).  encode raises on text that    *)
(* holds a special token (disallowed_special defaults to "all").           *)
(***************************************************************************)
None == "None"

CL100K == "cl100k_base"

SPECIAL_TOKEN == <<"<","|","e","n","d","o","f","t","e","x","t","|",">">>

Letters == {"a","b","c","d","e","f","g","h","i","j","k","l","m","n","o","p","q","r","s","t","u","v","w","x","y","z"}

CharClass(c) ==
    IF c \in Letters THEN "letter"
    ELSE IF c \in {" ", "\n"} THEN "space"
    ELSE "other"

EncodeRaises(text) == Contains(text, SPECIAL_TOKEN)

\* encoding.encode(text) when it does not raise: the list of tokens.
Encode(text) ==
    LET starts == SelectSeq([i \in 1..Len(text) |-> i],
                            LAMBDA i : i = 1 \/ CharClass(text[i]) # CharClass(text[i - 1]))
        n      == Len(starts)
        upto(k) == IF k = n THEN Len(text) ELSE starts[k + 1] - 1
    IN  [k \in 1..n |-> SubSeq(text, starts[k], upto(k))]

\* encoding.decode(tokens)
Decode(tokens) == Join(EMPTY, tokens)

(***************************************************************************)
(* Outcomes.  A call either returns or ends in an exception; an outcome    *)
(* carries every field so that outcomes of different calls compare.        *)
(***************************************************************************)
Returns(v) == [raised |-> FALSE, value |-> v]

Raises == [raised |-> TRUE, value |-> 0]

\* an outcome whose final_tokens repeats original_tokens instead of the new count
OutcomeNotRemeasured(path, text, original_tokens, final_tokens) ==
    [raised |-> FALSE, path |-> path, text |-> text,
     original_tokens |-> original_tokens, final_tokens |-> original_tokens]

Outcome(path, text, original_tokens, final_tokens) ==
    [raised |-> FALSE, path |-> path, text |-> text,
     original_tokens |-> original_tokens, final_tokens |-> final_tokens]

RaisedOutcome ==
    [raised |-> TRUE, path |-> "raise", text |-> EMPTY,
     original_tokens |-> 0, final_tokens |-> 0]

(***************************************************************************)
(* class TokenCounter                                                      *)
(***************************************************************************)
EmptyDict == [k \in {} |-> 0]

\* d.get(k, default)
DictGet(d, k, default) == IF k \in DOMAIN d THEN d[k] ELSE default

PROVIDER_LIMITS ==
    [openai |-> ("gpt-4o-mini" :> 128000 @@ "gpt-4o" :> 128000 @@
                 "gpt-4-turbo" :> 128000 @@ "gpt-4" :> 8192 @@
                 "gpt-3.5-turbo" :> 16385),
     groq   |-> ("qwen/qwen3-32b" :> 32768 @@ "llama-3.1-70b-versatile" :> 131072 @@
                 "llama-3.1-8b-instant" :> 131072 @@ "mixtral-8x7b-32768" :> 32768 @@
                 "gemma2-9b-it" :> 8192),
     claude |-> ("claude-sonnet-4-5" :> 200000 @@ "claude-sonnet-4" :> 200000 @@
                 "claude-opus-4" :> 200000 @@ "claude-opus-4-1" :> 200000 @@
                 "claude-3-5-sonnet-20241022" :> 200000 @@
                 "claude-3-5-sonnet-20240620" :> 200000 @@
                 "claude-3-opus-20240229" :> 200000 @@
                 "claude-3-sonnet-20240229" :> 200000 @@
                 "claude-3-haiku-20240307" :> 200000)]

PromptSizesAllDefault ==
    [commit_conventional |-> 700, commit_detailed |-> 850, commit_simple |-> 500]

PROMPT_SIZES ==
    [commit_conventional |-> 600, commit_detailed |-> 850, commit_simple |-> 500]

DEFAULT_MODEL_LIMIT == 8000

DEFAULT_PROMPT_SIZE == 700

\* a floor as large as the smallest model limit
FloorAtDefaultLimit == DEFAULT_MODEL_LIMIT

MIN_DIFF_TOKENS == 1000

DEFAULT_PROVIDER == "openai"

DEFAULT_PROMPT_STYLE == "commit_conventional"

DEFAULT_OUTPUT_RESERVE == 1000

DEFAULT_FILES_LIST_RESERVE == 100

DEFAULT_SAFETY_MARGIN == 500

\* a lookup that constructs the handle on every call, cached or not
GetEncodingUncached(enc, ok) == IF ok THEN CL100K ELSE None

\* _get_encoding: the handle it returns, which is also what it leaves cached.
GetEncoding(enc, ok) ==
    IF enc = None
    THEN (IF ok THEN CL100K ELSE None)
    ELSE enc

\* _estimate_tokens
EstimateTokensBy4(text) == Len(text) \div 4

EstimateTokens(text) == Len(text) \div 3

\* count_tokens, enc being what _get_encoding returned to it.
CountTokensNoExcept(text, enc) ==
    IF enc # None
    THEN (IF EncodeRaises(text) THEN Raises ELSE Returns(Len(Encode(text))))
    ELSE Returns(EstimateTokens(text))

CountTokens(text, enc) ==
    IF enc # None /\ ~EncodeRaises(text)
    THEN Returns(Len(Encode(text)))
    ELSE Returns(EstimateTokens(text))

\* get_model_limit
GetModelLimitIndexing(prov, model) ==
    IF prov \in DOMAIN PROVIDER_LIMITS /\ model \in DOMAIN PROVIDER_LIMITS[prov]
    THEN Returns(PROVIDER_LIMITS[prov][model])
    ELSE Raises

GetModelLimit(prov, model) ==
    LET provider_limits == DictGet(PROVIDER_LIMITS, prov, EmptyDict)
    IN  Returns(DictGet(provider_limits, model, DEFAULT_MODEL_LIMIT))

\* max(a, b)
MaxKeepsFirst(a, b) == a

Max(a, b) == IF a >= b THEN a ELSE b

\* The value a keyword parameter is bound to (lines 115-118): the argument,
\* or the parameter's default when the caller omits it.
BoundAsPassed(omits, name, value, default) == value

Bound(omits, name, value, default) == IF name \in omits THEN default ELSE value

\* calculate_max_diff_tokens
CalculateMaxDiffTokens(prov, model, prompt_style, output_reserve, files_list_reserve, safety_margin) ==
    LET total_limit == GetModelLimit(prov, model)
        prompt_tokens == DictGet(PROMPT_SIZES, prompt_style, DEFAULT_PROMPT_SIZE)
    IN  IF total_limit.raised THEN Raises
        ELSE Returns(Max(total_limit.value - prompt_tokens - output_reserve
                           - files_list_reserve - safety_margin,
                         MIN_DIFF_TOKENS))

RECURSIVE Gcd(_, _)
Gcd(a, b) == IF b = 0 THEN a ELSE Gcd(b, a % b)

RECURSIVE IsPowerOfTwo(_)
IsPowerOfTwo(n) == n = 1 \/ (n > 1 /\ n % 2 = 0 /\ IsPowerOfTwo(n \div 2))

\* int(x) of the exact quotient p / q (q > 0): truncation toward zero.
TruncQuot(p, q) == IF p >= 0 THEN p \div q ELSE -((-p) \div q)

\* a cut that takes every token for four characters, whatever the text's ratio
MaxCharsFourPerToken(available_tokens, length, original_tokens, float_low) ==
    available_tokens * 4

\* int(available_tokens * chars_per_token), chars_per_token being the float
\* len(text) / original_tokens when original_tokens > 0 and 3 otherwise.
\* The float quotient is exact when its reduced denominator is a power of
\* two; otherwise a product whose exact value is an integer may be computed
\* just short of it, and int() then yields the integer next to it toward
\* zero (float_low says whether the rounding fell that way).
MaxChars(available_tokens, length, original_tokens, float_low) ==
    IF original_tokens > 0
    THEN LET p == available_tokens * length
             q == TruncQuot(p, original_tokens)
             inexact == ~IsPowerOfTwo(original_tokens \div Gcd(length, original_tokens))
         IN  IF float_low /\ inexact /\ q # 0 /\ p % original_tokens = 0
             THEN (IF q > 0 THEN q - 1 ELSE q + 1)
             ELSE q
    ELSE available_tokens * 3

\* the guard of both truncators (lines 165 and 211)
WithinBudgetStrict(original_tokens, max_tokens) == original_tokens < max_tokens

WithinBudget(original_tokens, max_tokens) == original_tokens <= max_tokens

\* truncate_to_limit; enc is the handle _get_encoding returns during the
\* call, decode_ok whether encoding.decode succeeds.
TruncateToLimit(text, max_tokens, suffix, enc, decode_ok, float_low) ==
    LET original == CountTokens(text, enc)
        original_tokens == original.value
        suffix_count == CountTokens(suffix, enc)
        available_tokens == max_tokens - suffix_count.value
        \* lines 173-182: the tokenizer path, left on any exception
        tokens == Encode(text)
        exact_text == Decode(Slice(tokens, available_tokens)) \o suffix
        exact_final == CountTokens(exact_text, enc)
        exact_done == /\ enc # None
                      /\ ~EncodeRaises(text)
                      /\ decode_ok
                      /\ ~exact_final.raised
        \* lines 184-190: the character-ratio path
        max_chars == MaxChars(available_tokens, Len(text), original_tokens, float_low)
        truncated_text == Slice(text, max_chars) \o suffix
        ratio_final == CountTokens(truncated_text, enc)
    IN  IF original.raised THEN RaisedOutcome
        ELSE IF WithinBudget(original_tokens, max_tokens)
        THEN Outcome("unchanged", text, original_tokens, original_tokens)
        ELSE IF suffix_count.raised THEN RaisedOutcome
        ELSE IF exact_done
        THEN Outcome("tokens", exact_text, original_tokens, exact_final.value)
        ELSE IF ratio_final.raised THEN RaisedOutcome
        ELSE Outcome("chars", truncated_text, original_tokens, ratio_final.value)

\* The for loop of truncate_intelligently (lines 227-236) over the sections
\* lo..hi (lo <= hi), entered with current_tokens: whether it left the range
\* early (by an exception or by break) and at which section, and
\* current_tokens after it.  One section is one pass through the body; a
\* longer range is its first half and then, unless the loop left, its second.
RECURSIVE WalkFilesSkipping(_, _, _, _, _, _, _)
WalkFilesSkipping(file_parts, lo, hi, current_tokens, suffix_tokens, max_tokens, enc) ==
    IF lo = hi
    THEN LET file_tokens == CountTokens(MARKER \o file_parts[lo], enc)
             fits == current_tokens + file_tokens.value + suffix_tokens <= max_tokens
         IN  [kept |-> IF fits THEN <<file_parts[lo]>> ELSE <<>>,
              current_tokens |-> IF fits THEN current_tokens + file_tokens.value
                                 ELSE current_tokens]
    ELSE LET mid == (lo + hi) \div 2
             first == WalkFilesSkipping(file_parts, lo, mid, current_tokens,
                                        suffix_tokens, max_tokens, enc)
             second == WalkFilesSkipping(file_parts, mid + 1, hi, first.current_tokens,
                                         suffix_tokens, max_tokens, enc)
         IN  [kept |-> first.kept \o second.kept,
              current_tokens |-> second.current_tokens]

RECURSIVE WalkFiles(_, _, _, _, _, _, _)
WalkFiles(file_parts, lo, hi, current_tokens, suffix_tokens, max_tokens, enc) ==
    IF lo = hi
    THEN LET full_diff == MARKER \o file_parts[lo]
             file_tokens == CountTokens(full_diff, enc)
         IN  IF file_tokens.raised
             THEN [raised |-> TRUE, broke |-> FALSE, at |-> lo,
                   current_tokens |-> current_tokens]
             ELSE IF current_tokens + file_tokens.value + suffix_tokens > max_tokens
             THEN [raised |-> FALSE, broke |-> TRUE, at |-> lo,
                   current_tokens |-> current_tokens]
             ELSE [raised |-> FALSE, broke |-> FALSE, at |-> lo + 1,
                   current_tokens |-> current_tokens + file_tokens.value]
    ELSE LET mid == (lo + hi) \div 2
             first == WalkFiles(file_parts, lo, mid, current_tokens,
                                suffix_tokens, max_tokens, enc)
         IN  IF first.raised \/ first.broke
             THEN first
             ELSE WalkFiles(file_parts, mid + 1, hi, first.current_tokens,
                            suffix_tokens, max_tokens, enc)

\* The loop from index i on, entered with result_parts and current_tokens:
\* whether an exception ended it, whether it left by break, and result_parts
\* (the sections before the one it left at, then the notice after a break).
AccumulateFilesSkipping(file_parts, i, result_parts, current_tokens, suffix_tokens, max_tokens, enc) ==
    LET n == Len(file_parts)
        kept == IF i > n THEN <<>>
                ELSE WalkFilesSkipping(file_parts, i, n, current_tokens,
                                       suffix_tokens, max_tokens, enc).kept
    IN  [raised |-> FALSE, broke |-> TRUE,
         result_parts |-> Append(result_parts \o kept, SUFFIX_FILES)]

AccumulateFilesNoReserve(file_parts, i, result_parts, current_tokens, suffix_tokens, max_tokens, enc) ==
    LET n == Len(file_parts)
        walk == IF i > n
                THEN [raised |-> FALSE, broke |-> FALSE, at |-> i,
                      current_tokens |-> current_tokens]
                ELSE WalkFiles(file_parts, i, n, current_tokens, 0, max_tokens, enc)
        appended == result_parts \o SubSeq(file_parts, i, walk.at - 1)
    IN  [raised |-> walk.raised, broke |-> walk.broke,
         result_parts |-> IF walk.broke THEN Append(appended, SUFFIX_FILES)
                          ELSE appended]

\* a loop that takes its first section untested and tests the later ones
AccumulateFilesKeepingFirst(file_parts, i, result_parts, current_tokens, suffix_tokens, max_tokens, enc) ==
    LET n == Len(file_parts)
        first_tokens == CountTokens(MARKER \o file_parts[i], enc).value
        walk == IF i + 1 > n
                THEN [raised |-> FALSE, broke |-> FALSE, at |-> i + 1,
                      current_tokens |-> current_tokens + first_tokens]
                ELSE WalkFiles(file_parts, i + 1, n, current_tokens + first_tokens,
                               suffix_tokens, max_tokens, enc)
        appended == result_parts \o SubSeq(file_parts, i, walk.at - 1)
    IN  [raised |-> walk.raised, broke |-> walk.broke,
         result_parts |-> IF walk.broke THEN Append(appended, SUFFIX_FILES)
                          ELSE appended]

AccumulateFiles(file_parts, i, result_parts, current_tokens, suffix_tokens, max_tokens, enc) ==
    LET n == Len(file_parts)
        walk == IF i > n
                THEN [raised |-> FALSE, broke |-> FALSE, at |-> i,
                      current_tokens |-> current_tokens]
                ELSE WalkFiles(file_parts, i, n, current_tokens, suffix_tokens,
                               max_tokens, enc)
        appended == result_parts \o SubSeq(file_parts, i, walk.at - 1)
    IN  [raised |-> walk.raised, broke |-> walk.broke,
         result_parts |-> IF walk.broke THEN Append(appended, SUFFIX_FILES)
                          ELSE appended]

\* line 225: the sections the loop walks over
FileParts(file_diffs) ==
    IF file_diffs[1] = EMPTY THEN Tail(file_diffs) ELSE file_diffs

\* truncate_intelligently
TruncateIntelligently(diff_text, max_tokens, preserve_start, enc, decode_ok, float_low) ==
    LET original == CountTokens(diff_text, enc)
        original_tokens == original.value
        file_diffs == SplitOnMarker(diff_text)
        suffix_count == CountTokens(SUFFIX_FILES, enc)
        file_parts == FileParts(file_diffs)
        loop == AccumulateFiles(file_parts, 1, <<EMPTY>>, 0, suffix_count.value,
                                max_tokens, enc)
        \* the loop's else clause (line 238)
        result_parts == IF loop.broke THEN loop.result_parts ELSE file_diffs
        result == IF result_parts[1] = EMPTY
                  THEN Join(MARKER, result_parts)
                  ELSE Join(NEWLINE, result_parts)
        final == CountTokens(result, enc)
    IN  IF original.raised THEN RaisedOutcome
        ELSE IF WithinBudget(original_tokens, max_tokens)
        THEN Outcome("unchanged", diff_text, original_tokens, original_tokens)
        ELSE IF Len(file_diffs) <= 1
        THEN TruncateToLimit(diff_text, max_tokens, SUFFIX_GENERIC, enc,
                             decode_ok, float_low)
        ELSE IF suffix_count.raised \/ loop.raised \/ final.raised
        THEN RaisedOutcome
        ELSE Outcome(IF loop.broke THEN "files" ELSE "all_files",
                     result, original_tokens, final.value)

\* How many times each method calls _get_encoding (itself at line 171, through
\* count_tokens at lines 163, 168, 179, 188, 209, 223, 229 and 241).
CountTokensLookups == 1

TruncateToLimitLookups(text, max_tokens, suffix, enc) ==
    IF WithinBudget(CountTokens(text, enc).value, max_tokens) THEN 1 ELSE 4

TruncateIntelligentlyLookups(diff_text, max_tokens, enc) ==
    LET file_diffs == SplitOnMarker(diff_text)
        suffix_tokens == CountTokens(SUFFIX_FILES, enc).value
        loop == AccumulateFiles(FileParts(file_diffs), 1, <<EMPTY>>, 0,
                                suffix_tokens, max_tokens, enc)
        \* one measurement for each section accepted and one for the section
        \* the loop broke at; result_parts starts as ['']
        measured == Len(loop.result_parts) - 1
    IN  IF WithinBudget(CountTokens(diff_text, enc).value, max_tokens) THEN 1
        ELSE IF Len(file_diffs) <= 1
        THEN 1 + TruncateToLimitLookups(diff_text, max_tokens, SUFFIX_GENERIC, enc)
        ELSE 1 + 1 + measured + 1

\* The number of times tiktoken.get_encoding (line 60) has been called after
\* a method that calls _get_encoding `lookups` times: a lookup calls it when
\* no handle is cached, so all of them do while it keeps raising and the
\* first one only when it succeeds. Counted up to MaxAttempts.
MaxAttempts == 2

Attempted(n, enc, ok, lookups) ==
    LET made == IF ok THEN 1 ELSE lookups
    IN  IF enc # None \/ n >= MaxAttempts THEN n
        ELSE IF n + made > MaxAttempts THEN MaxAttempts ELSE n + made

(***************************************************************************)
(* Inputs.                                                                 *)
(***************************************************************************)
MinBudget == 20

MaxBudget == 36

MaxUnder == 3

ManyFiles == 37

BigLines == 40

Rep(s, n) == [i \in 1..(n * Len(s)) |-> s[((i - 1) % Len(s)) + 1]]

\* file sections: a small one, another small one, a big one, one that holds
\* a special token of the encoding, and the smallest possible one
SmallFile == MARKER \o <<" ","a","\n">>

OtherFile == MARKER \o <<" ","c","\n","+","c">>

BigFile == MARKER \o <<" ","b","\n">> \o Rep(<<"+","b">>, BigLines)

SpecialFile == MARKER \o <<" ","s","\n","+">> \o SPECIAL_TOKEN

TinyFile == MARKER \o <<"\n">>

Preamble == <<"#"," ","n","o","t","e","\n">>

Texts ==
    { EMPTY,
      <<"a","b","c">>,
      Rep(<<"+","b">>, BigLines),
      SPECIAL_TOKEN \o Rep(<<"+","b">>, BigLines),
      SmallFile,
      BigFile,
      SmallFile \o BigFile,
      BigFile \o SmallFile,
      SmallFile \o BigFile \o SmallFile,
      SmallFile \o OtherFile \o BigFile,
      SmallFile \o SpecialFile \o BigFile,
      Preamble \o SmallFile \o BigFile,
      Preamble \o BigFile,
      Rep(TinyFile, ManyFiles),
      <<"x">> \o Rep(TinyFile, ManyFiles) }

Budgets(text) ==
    {-1, 0} \cup (MinBudget..MaxBudget)
        \cup {EstimateTokens(text) - d : d \in 1..MaxUnder}

Providers == {"openai", "groq", "claude", "mistral"}

Models == {"gpt-4", "gpt-4o", "gemma2-9b-it", "claude-opus-4", "no-such-model"}

PromptStyles == {"commit_conventional", "commit_detailed", "commit_simple", "haiku"}

\* 5992 leaves gpt-4 (8192) with exactly 1000 under the conventional prompt
Reserves == {0, 1500, 5992, 9000, 250000}

\* the texts truncate_intelligently is also given with preserve_start = False
TextsFromEnd == {SmallFile \o BigFile, SmallFile \o OtherFile \o BigFile}

TextArgs ==
    [provider : {DEFAULT_PROVIDER}, text : Texts, max_tokens : {0},
     preserve_start : {TRUE}, suffix : {SUFFIX_DEFAULT},
     model : {"gpt-4"}, prompt_style : {DEFAULT_PROMPT_STYLE},
     output_reserve : {DEFAULT_OUTPUT_RESERVE},
     files_list_reserve : {DEFAULT_FILES_LIST_RESERVE},
     safety_margin : {DEFAULT_SAFETY_MARGIN}, omits : {{}}]
    \cup
    [provider : {DEFAULT_PROVIDER}, text : TextsFromEnd, max_tokens : {0},
     preserve_start : {FALSE}, suffix : {SUFFIX_DEFAULT},
     model : {"gpt-4"}, prompt_style : {DEFAULT_PROMPT_STYLE},
     output_reserve : {DEFAULT_OUTPUT_RESERVE},
     files_list_reserve : {DEFAULT_FILES_LIST_RESERVE},
     safety_margin : {DEFAULT_SAFETY_MARGIN}, omits : {{}}]

BudgetArgs ==
    [provider : Providers, text : {EMPTY}, max_tokens : {0},
     preserve_start : {TRUE}, suffix : {SUFFIX_DEFAULT},
     model : Models, prompt_style : PromptStyles,
     output_reserve : Reserves,
     files_list_reserve : {DEFAULT_FILES_LIST_RESERVE},
     safety_margin : {DEFAULT_SAFETY_MARGIN}, omits : {{}}]
    \cup
    [provider : {DEFAULT_PROVIDER}, text : {EMPTY}, max_tokens : {0},
     preserve_start : {TRUE}, suffix : {SUFFIX_DEFAULT},
     model : {"gpt-4"}, prompt_style : {DEFAULT_PROMPT_STYLE},
     output_reserve : Reserves,
     files_list_reserve : {DEFAULT_FILES_LIST_RESERVE, 9000},
     safety_margin : {DEFAULT_SAFETY_MARGIN, 9000}, omits : {{}}]

\* the keyword parameters of calculate_max_diff_tokens that have a default
Reservations == {"output_reserve", "files_list_reserve", "safety_margin"}

\* what the caller passes for a reservation: nothing when it omits it
Given(o, name) == IF name \in o THEN {0} ELSE {0, 9000}

\* calls of calculate_max_diff_tokens that leave some reservations out
OmittingArgs ==
    UNION {[provider : {DEFAULT_PROVIDER}, text : {EMPTY}, max_tokens : {0},
            preserve_start : {TRUE}, suffix : {SUFFIX_DEFAULT},
            model : {"gpt-4"}, prompt_style : {DEFAULT_PROMPT_STYLE, "haiku"},
            output_reserve : Given(o, "output_reserve"),
            files_list_reserve : Given(o, "files_list_reserve"),
            safety_margin : Given(o, "safety_margin"),
            omits : {o}] : o \in (SUBSET Reservations) \ {{}}}

ArgSets ==
    UNION {{[a EXCEPT !.max_tokens = m] : m \in Budgets(a.text)} : a \in TextArgs}
    \cup BudgetArgs
    \cup OmittingArgs

(***************************************************************************)
(* The state machine: one TokenCounter, called by a single-threaded caller *)
(* that takes the result of a call before it makes the next one.           *)
(***************************************************************************)
NoCall ==
    [op |-> "none", input |-> EMPTY, max_tokens |-> 0, exact |-> FALSE,
     raised |-> FALSE, path |-> "none", text |-> EMPTY,
     original_tokens |-> 0, final_tokens |-> 0, value |-> 0]

ValueCall(op, input, enc, r) ==
    [op |-> op, input |-> input, max_tokens |-> 0, exact |-> enc # None,
     raised |-> r.raised, path |-> IF r.raised THEN "raise" ELSE "return",
     text |-> EMPTY, original_tokens |-> 0, final_tokens |-> 0,
     value |-> r.value]

TextCall(op, input, max_tokens, enc, r) ==
    [op |-> op, input |-> input, max_tokens |-> max_tokens, exact |-> enc # None,
     raised |-> r.raised, path |-> r.path, text |-> r.text,
     original_tokens |-> r.original_tokens, final_tokens |-> r.final_tokens,
     value |-> 0]

\* Python's None where a text is expected (a text holds one-character strings)
NoText == <<"None">>

\* --output-tokens (cli.py line 734)
OUTPUT_TOKENS == 1500

\* the locals of `commit` before it runs
NoLocals ==
    [has_staged |-> FALSE, max_tokens |-> 0, commit_message |-> NoText,
     choice |-> "none", edited_message |-> NoText]

\* no `commit` command is running
NoCommand ==
    /\ opts = [no_commit |-> FALSE, stage_all |-> FALSE, max_tokens_set |-> FALSE]
    /\ repo = [staged |-> FALSE, unstaged |-> FALSE, untracked |-> FALSE]
    /\ pc = "none"
    /\ locals = NoLocals
    /\ commit_calls = 0

(***************************************************************************)
(* Config of buildpost/utils/config.py: the "api" section of its data.     *)
(* A dict is a function on the keys it holds; None is Python's None.       *)
(***************************************************************************)
\* Config.DEFAULT_PROVIDER
CONFIG_DEFAULT_PROVIDER == "openai"

DEFAULT_MODELS ==
    [p \in {"openai", "groq", "claude", "openrouter"} |->
        CASE p = "openai" -> "gpt-4o-mini"
          [] p = "groq" -> "qwen/qwen3-32b"
          [] p = "claude" -> "claude-sonnet-4-5"
          [] p = "openrouter" -> "openai/gpt-4o-mini"]

PROVIDER_ENV_VARS ==
    [p \in {"openai", "groq", "claude", "openrouter"} |->
        CASE p = "openai" -> "OPENAI_API_KEY"
          [] p = "groq" -> "GROQ_API_KEY"
          [] p = "claude" -> "ANTHROPIC_API_KEY"
          [] p = "openrouter" -> "OPENROUTER_API_KEY"]

\* d[k] = v
DictSet(d, k, v) == [x \in DOMAIN d \cup {k} |-> IF x = k THEN v ELSE d[x]]

\* the truth value of a string or None
TruthyStr(v) == v # None /\ v # ""

\* _get_default_config()["api"]
DefaultConfig ==
    [provider |-> CONFIG_DEFAULT_PROVIDER,
     model |-> DEFAULT_MODELS[CONFIG_DEFAULT_PROVIDER],
     models |-> DEFAULT_MODELS,
     api_key |-> None,
     api_keys |-> EmptyDict]

\* get_provider: self.get("api.provider", DEFAULT_PROVIDER)
GetProvider(c) == IF c.provider = None THEN CONFIG_DEFAULT_PROVIDER ELSE c.provider

\* `provider or self.get_provider()`
ProviderOr(c, prov) == IF TruthyStr(prov) THEN prov ELSE GetProvider(c)

\* get_model
GetModel(c, prov) ==
    LET p == ProviderOr(c, prov)
        model == DictGet(c.models, p, None)
    IN  IF TruthyStr(model) THEN model
        ELSE IF TruthyStr(c.model) /\ p = GetProvider(c) THEN c.model
        ELSE DictGet(DEFAULT_MODELS, p, DEFAULT_MODELS[CONFIG_DEFAULT_PROVIDER])

\* set_model
SetModel(c, prov, model) ==
    [c EXCEPT !.models = DictSet(c.models, prov, model),
              !.model = IF prov = GetProvider(c) THEN model ELSE c.model]

\* set_provider: api.provider is written first, then api.model from get_model
SetProvider(c, prov) ==
    LET switched == [c EXCEPT !.provider = prov]
    IN  [switched EXCEPT !.model = GetModel(switched, prov)]

\* get_api_key
GetApiKey(c, env, prov) ==
    LET p == ProviderOr(c, prov)
        api_key == DictGet(c.api_keys, p, None)
    IN  IF TruthyStr(api_key) THEN api_key
        ELSE IF TruthyStr(c.api_key) /\ p = GetProvider(c) THEN c.api_key
        ELSE IF p \in DOMAIN PROVIDER_ENV_VARS
        THEN DictGet(env, PROVIDER_ENV_VARS[p], None)
        ELSE None

\* set_api_key
SetApiKey(c, api_key, prov) ==
    LET p == ProviderOr(c, prov)
    IN  [c EXCEPT !.api_keys = DictSet(c.api_keys, p, api_key),
                  !.api_key = IF p = GetProvider(c) THEN api_key ELSE c.api_key]

\* no Config is in use
NoConfig ==
    /\ config = DefaultConfig
    /\ environ = EmptyDict
    /\ stored = {}
    /\ config_calls = 0

\* one caller at a time: nobody is inside _get_encoding between two steps
Callers == {"a", "b"}

NoCaller == [pc |-> "out", built |-> FALSE, ret |-> None, calls |-> 0]

NoRace == threads = [t \in Callers |-> NoCaller]

\* TokenCounter(provider): __init__ (lines 45-53)
Init ==
    /\ args \in ArgSets
    /\ provider = args.provider
    /\ encoding = None
    /\ attempts = 0
    /\ tiktoken_ok \in BOOLEAN
    /\ call = NoCall
    /\ prev = NoCall
    /\ NoCommand
    /\ NoRace
    /\ NoConfig

Idle == call.op = "none"

DoCountTokens ==
    /\ Idle
    /\ LET enc == GetEncoding(encoding, tiktoken_ok)
       IN  /\ encoding' = enc
           /\ attempts' = Attempted(attempts, encoding, tiktoken_ok,
                                    CountTokensLookups)
           /\ call' = ValueCall("count_tokens", args.text, enc,
                                CountTokens(args.text, enc))
    /\ UNCHANGED <<provider, tiktoken_ok, args, prev>>
    /\ UNCHANGED commitVars
    /\ UNCHANGED raceVars
    /\ UNCHANGED configVars

DoGetModelLimit ==
    /\ Idle
    /\ call' = ValueCall("get_model_limit", EMPTY, encoding,
                         GetModelLimit(provider, args.model))
    /\ UNCHANGED <<provider, encoding, attempts, tiktoken_ok, args, prev>>
    /\ UNCHANGED commitVars
    /\ UNCHANGED raceVars
    /\ UNCHANGED configVars

\* calculate_max_diff_tokens as it would be if it looked the tokenizer up
DoCalculateMaxDiffTokensLoading ==
    /\ Idle
    /\ encoding' = GetEncoding(encoding, tiktoken_ok)
    /\ attempts' = Attempted(attempts, encoding, tiktoken_ok, CountTokensLookups)
    /\ call' = ValueCall("calculate_max_diff_tokens", EMPTY, encoding',
                         CalculateMaxDiffTokens(provider, args.model,
                             args.prompt_style,
                             Bound(args.omits, "output_reserve",
                                   args.output_reserve, DEFAULT_OUTPUT_RESERVE),
                             Bound(args.omits, "files_list_reserve",
                                   args.files_list_reserve,
                                   DEFAULT_FILES_LIST_RESERVE),
                             Bound(args.omits, "safety_margin",
                                   args.safety_margin, DEFAULT_SAFETY_MARGIN)))
    /\ UNCHANGED <<provider, tiktoken_ok, args, prev>>
    /\ UNCHANGED commitVars
    /\ UNCHANGED raceVars
    /\ UNCHANGED configVars

DoCalculateMaxDiffTokens ==
    /\ Idle
    /\ call' = ValueCall("calculate_max_diff_tokens", EMPTY, encoding,
                         CalculateMaxDiffTokens(provider, args.model,
                             args.prompt_style,
                             Bound(args.omits, "output_reserve",
                                   args.output_reserve, DEFAULT_OUTPUT_RESERVE),
                             Bound(args.omits, "files_list_reserve",
                                   args.files_list_reserve,
                                   DEFAULT_FILES_LIST_RESERVE),
                             Bound(args.omits, "safety_margin",
                                   args.safety_margin, DEFAULT_SAFETY_MARGIN)))
    /\ UNCHANGED <<provider, encoding, attempts, tiktoken_ok, args, prev>>
    /\ UNCHANGED commitVars
    /\ UNCHANGED raceVars
    /\ UNCHANGED configVars

DoTruncateToLimit ==
    /\ Idle
    /\ attempts' = Attempted(attempts, encoding, tiktoken_ok,
                      TruncateToLimitLookups(args.text, args.max_tokens,
                          args.suffix, GetEncoding(encoding, tiktoken_ok)))
    /\ \E decode_ok \in BOOLEAN, float_low \in BOOLEAN :
         LET enc == GetEncoding(encoding, tiktoken_ok)
         IN  /\ encoding' = enc
             /\ call' = TextCall("truncate_to_limit", args.text, args.max_tokens,
                                 enc,
                                 TruncateToLimit(args.text, args.max_tokens,
                                     args.suffix, enc, decode_ok, float_low))
    /\ UNCHANGED <<provider, tiktoken_ok, args, prev>>
    /\ UNCHANGED commitVars
    /\ UNCHANGED raceVars
    /\ UNCHANGED configVars

DoTruncateIntelligently ==
    /\ Idle
    /\ attempts' = Attempted(attempts, encoding, tiktoken_ok,
                      TruncateIntelligentlyLookups(args.text, args.max_tokens,
                          GetEncoding(encoding, tiktoken_ok)))
    /\ \E decode_ok \in BOOLEAN, float_low \in BOOLEAN :
         LET enc == GetEncoding(encoding, tiktoken_ok)
         IN  /\ encoding' = enc
             /\ call' = TextCall("truncate_intelligently", args.text,
                                 args.max_tokens, enc,
                                 TruncateIntelligently(args.text, args.max_tokens,
                                     args.preserve_start, enc, decode_ok,
                                     float_low))
    /\ UNCHANGED <<provider, tiktoken_ok, args, prev>>
    /\ UNCHANGED commitVars
    /\ UNCHANGED raceVars
    /\ UNCHANGED configVars

\* truncate_intelligently applied again, to the text the last call returned
Reapply ==
    /\ call.op = "truncate_intelligently"
    /\ ~call.raised
    /\ prev.op = "none"
    /\ attempts' = Attempted(attempts, encoding, tiktoken_ok,
                      TruncateIntelligentlyLookups(call.text, args.max_tokens,
                          GetEncoding(encoding, tiktoken_ok)))
    /\ \E decode_ok \in BOOLEAN, float_low \in BOOLEAN :
         LET enc == GetEncoding(encoding, tiktoken_ok)
         IN  /\ encoding' = enc
             /\ call' = TextCall("truncate_intelligently", call.text,
                                 args.max_tokens, enc,
                                 TruncateIntelligently(call.text, args.max_tokens,
                                     args.preserve_start, enc, decode_ok,
                                     float_low))
    /\ prev' = call
    /\ UNCHANGED <<provider, tiktoken_ok, args>>
    /\ UNCHANGED commitVars
    /\ UNCHANGED raceVars
    /\ UNCHANGED configVars

\* the caller takes the result
TakeResult ==
    /\ ~Idle
    /\ call' = NoCall
    /\ prev' = NoCall
    /\ UNCHANGED <<provider, encoding, attempts, tiktoken_ok, args>>
    /\ UNCHANGED commitVars
    /\ UNCHANGED raceVars
    /\ UNCHANGED configVars

\* the environment: the tokenizer's files become (un)available
EnvChange ==
    /\ tiktoken_ok' = ~tiktoken_ok
    /\ UNCHANGED <<provider, encoding, attempts, args, call, prev>>
    /\ UNCHANGED commitVars
    /\ UNCHANGED raceVars
    /\ UNCHANGED configVars

Next ==
    \/ DoCountTokens
    \/ DoGetModelLimit
    \/ DoCalculateMaxDiffTokens
    \/ DoTruncateToLimit
    \/ DoTruncateIntelligently
    \/ Reapply
    \/ TakeResult
    \/ EnvChange

Spec == Init /\ [][Next]_vars

(***************************************************************************)
(* The `commit` command of buildpost/cli.py: one run of it, from the       *)
(* options it is given to its exit.  It builds its own TokenCounter, so    *)
(* the run starts from the state above; its steps are cut where it reads   *)
(* the repository, calls the model, or asks the user.                      *)
(***************************************************************************)
\* str.strip() on a text
Whitespace == {" ", "\n"}

RECURSIVE LStrip(_)
LStrip(s) == IF s # EMPTY /\ Head(s) \in Whitespace THEN LStrip(Tail(s)) ELSE s

RECURSIVE RStrip(_)
RStrip(s) ==
    IF s # EMPTY /\ s[Len(s)] \in Whitespace
    THEN RStrip(SubSeq(s, 1, Len(s) - 1))
    ELSE s

Strip(s) == RStrip(LStrip(s))

\* `if edited_message:` (line 853): neither None nor ''
TruthyNotNone(s) == s # NoText

Truthy(s) == s # NoText /\ s # EMPTY

\* what _clean_ai_output makes of the model's reply, and what the user
\* leaves in the editor (None when it is closed without saving)
MESSAGE == <<"f","i","x",":"," ","a">>

GeneratedMessages == {EMPTY, MESSAGE}

EditedMessages ==
    {NoText, EMPTY, <<"\n">>, MESSAGE \o <<"\n">>, <<" ","d","o","c","s","\n">>}

CommitBudgets == {30, 36}

CommitArgs ==
    [provider : {DEFAULT_PROVIDER}, text : {SmallFile \o BigFile},
     max_tokens : CommitBudgets, preserve_start : {TRUE},
     suffix : {SUFFIX_DEFAULT}, model : {"gpt-4"},
     prompt_style : {DEFAULT_PROMPT_STYLE, "haiku"},
     output_reserve : {OUTPUT_TOKENS},
     files_list_reserve : {DEFAULT_FILES_LIST_RESERVE},
     safety_margin : {DEFAULT_SAFETY_MARGIN}, omits : {{}}]

InitCommit ==
    /\ args \in CommitArgs
    /\ provider = args.provider
    /\ encoding = None
    /\ attempts = 0
    /\ tiktoken_ok \in BOOLEAN
    /\ call = NoCall
    /\ prev = NoCall
    /\ opts \in [no_commit : BOOLEAN, stage_all : BOOLEAN, max_tokens_set : BOOLEAN]
    /\ repo \in [staged : BOOLEAN, unstaged : BOOLEAN, untracked : BOOLEAN]
    /\ pc = "setup"
    /\ locals = [NoLocals EXCEPT !.max_tokens = args.max_tokens]
    /\ commit_calls = 0
    /\ NoRace
    /\ NoConfig

Exit(code) == pc' = IF code = 0 THEN "exit0" ELSE "exit1"

\* lines 740-743: Config(), _setup_ai_services and GitParser() succeed, or
\* exit the run (sys.exit(1), InvalidGitRepositoryError, any exception)
CommitSetup ==
    /\ pc = "setup"
    /\ \E ok \in BOOLEAN : IF ok THEN pc' = "summary" ELSE Exit(1)
    /\ UNCHANGED <<opts, repo, locals, commit_calls>>
    /\ UNCHANGED counterVars
    /\ UNCHANGED raceVars
    /\ UNCHANGED configVars

\* lines 746-764: the changes summary, staging with --stage-all, and the
\* two exits for 'nothing changed' and 'nothing staged'
CommitSummary ==
    /\ pc = "summary"
    /\ LET changed == repo.staged \/ repo.unstaged \/ repo.untracked
           staging == changed /\ opts.stage_all
           has_staged == IF staging THEN TRUE ELSE repo.staged
       IN  /\ repo' = IF staging
                      THEN [staged |-> TRUE, unstaged |-> FALSE, untracked |-> FALSE]
                      ELSE repo
           /\ locals' = [locals EXCEPT !.has_staged = has_staged]
           /\ IF ~changed THEN Exit(0)
              ELSE IF has_staged THEN pc' = "diff"
              ELSE Exit(1)
    /\ UNCHANGED <<opts, commit_calls>>
    /\ UNCHANGED counterVars
    /\ UNCHANGED raceVars
    /\ UNCHANGED configVars

\* lines 766-769: get_all_changes_diff returns the diff, or None
CommitDiff ==
    /\ pc = "diff"
    /\ \E diff_text \in {NoText, args.text} :
         IF diff_text = NoText THEN Exit(1) ELSE pc' = "budget"
    /\ UNCHANGED <<opts, repo, locals, commit_calls>>
    /\ UNCHANGED counterVars
    /\ UNCHANGED raceVars
    /\ UNCHANGED configVars

\* lines 771-787: TokenCounter(provider) and, without --max-tokens,
\* calculate_max_diff_tokens(model, style, output_tokens)
CommitBudget ==
    /\ pc = "budget"
    /\ IF opts.max_tokens_set
       THEN /\ pc' = "truncate"
            /\ UNCHANGED <<locals, call>>
       ELSE LET r == CalculateMaxDiffTokens(provider, args.model,
                         args.prompt_style, args.output_reserve,
                         DEFAULT_FILES_LIST_RESERVE, DEFAULT_SAFETY_MARGIN)
            IN  /\ call' = ValueCall("calculate_max_diff_tokens", EMPTY,
                                     encoding, r)
                /\ IF r.raised
                   THEN Exit(1) /\ UNCHANGED locals
                   ELSE /\ pc' = "truncate"
                        /\ locals' = [locals EXCEPT !.max_tokens = r.value]
    /\ UNCHANGED <<provider, encoding, attempts, tiktoken_ok, args, prev>>
    /\ UNCHANGED <<opts, repo, commit_calls>>
    /\ UNCHANGED raceVars
    /\ UNCHANGED configVars

\* lines 789-792: truncate_intelligently(diff_text, max_tokens)
CommitTruncate ==
    /\ pc = "truncate"
    /\ attempts' = Attempted(attempts, encoding, tiktoken_ok,
                      TruncateIntelligentlyLookups(args.text, locals.max_tokens,
                          GetEncoding(encoding, tiktoken_ok)))
    /\ \E decode_ok \in BOOLEAN, float_low \in BOOLEAN :
         LET enc == GetEncoding(encoding, tiktoken_ok)
             r == TruncateIntelligently(args.text, locals.max_tokens, TRUE,
                                        enc, decode_ok, float_low)
         IN  /\ encoding' = enc
             /\ call' = TextCall("truncate_intelligently", args.text,
                                 locals.max_tokens, enc, r)
             /\ IF r.raised THEN Exit(1) ELSE pc' = "generate"
    /\ UNCHANGED <<provider, tiktoken_ok, args, prev>>
    /\ UNCHANGED <<opts, repo, locals, commit_calls>>
    /\ UNCHANGED raceVars
    /\ UNCHANGED configVars

\* lines 806-838: render_prompt and generate_post succeed or exit the run;
\* the reply is cleaned and shown; --no-commit ends the run here
CommitGenerate ==
    /\ pc = "generate"
    /\ \E rendered \in BOOLEAN, generated \in BOOLEAN,
          commit_message \in GeneratedMessages :
         IF rendered /\ generated
         THEN /\ locals' = [locals EXCEPT !.commit_message = commit_message]
              /\ IF opts.no_commit THEN Exit(0) ELSE pc' = "prompt"
         ELSE Exit(1) /\ UNCHANGED locals
    /\ UNCHANGED <<opts, repo, commit_calls>>
    /\ UNCHANGED counterVars
    /\ UNCHANGED raceVars
    /\ UNCHANGED configVars

\* lines 840-849: the y / e / n prompt; 'n' cancels, an aborted prompt is
\* an exception
CommitPrompt ==
    /\ pc = "prompt"
    /\ \E choice \in {"y", "e", "n", "abort"} :
         IF choice = "abort" THEN Exit(1) /\ UNCHANGED locals
         ELSE /\ locals' = [locals EXCEPT !.choice = choice]
              /\ IF choice = "n" THEN Exit(0)
                 ELSE IF choice = "e" THEN pc' = "edit"
                 ELSE pc' = "commit"
    /\ UNCHANGED <<opts, repo, commit_calls>>
    /\ UNCHANGED counterVars
    /\ UNCHANGED raceVars
    /\ UNCHANGED configVars

\* lines 851-857: click.edit(commit_message)
CommitEdit ==
    /\ pc = "edit"
    /\ \E edited_message \in EditedMessages :
         IF Truthy(edited_message)
         THEN /\ locals' = [locals EXCEPT !.edited_message = edited_message,
                                          !.commit_message = Strip(edited_message)]
              /\ pc' = "commit"
         ELSE /\ locals' = [locals EXCEPT !.edited_message = edited_message]
              /\ Exit(0)
    /\ UNCHANGED <<opts, repo, commit_calls>>
    /\ UNCHANGED counterVars
    /\ UNCHANGED raceVars
    /\ UNCHANGED configVars

\* lines 859-865 and GitParser.commit_changes (git_parser.py 308-326): the
\* call, which raises when nothing is staged or the commit fails
CommitChanges ==
    /\ pc = "commit"
    /\ commit_calls' = commit_calls + 1
    /\ \E ok \in BOOLEAN :
         IF repo.staged /\ ok
         THEN /\ repo' = [repo EXCEPT !.staged = FALSE]
              /\ pc' = "done"
         ELSE /\ Exit(1)
              /\ UNCHANGED repo
    /\ UNCHANGED <<opts, locals>>
    /\ UNCHANGED counterVars
    /\ UNCHANGED raceVars
    /\ UNCHANGED configVars

NextCommit ==
    \/ CommitSetup
    \/ CommitSummary
    \/ CommitDiff
    \/ CommitBudget
    \/ CommitTruncate
    \/ CommitGenerate
    \/ CommitPrompt
    \/ CommitEdit
    \/ CommitChanges

SpecCommit == InitCommit /\ [][NextCommit]_vars

(***************************************************************************)
(* _get_encoding (lines 55-63) entered by two callers at once on one       *)
(* TokenCounter.  The method takes no lock, so a caller can be preempted   *)
(* between any two of its steps: the test of line 57, the call of line 60, *)
(* the store of its result, the store of the except clause (line 62) and   *)
(* the read of line 63.  The environment may change between the callers'   *)
(* construction attempts, so each attempt succeeds or fails on its own.    *)
(***************************************************************************)
\* calls of _get_encoding each caller makes
RaceCalls == 2

RaceArgs == CHOOSE a \in CommitArgs : TRUE

InitRace ==
    /\ args = RaceArgs
    /\ provider = args.provider
    /\ encoding = None
    /\ attempts = 0
    /\ tiktoken_ok \in BOOLEAN
    /\ call = NoCall
    /\ prev = NoCall
    /\ NoCommand
    /\ NoRace
    /\ NoConfig

\* caller t moves to pc `to`, leaving the object's fields as they are
Moves(t, to) == threads' = [threads EXCEPT ![t].pc = to]

\* t calls _get_encoding
RaceEnter(t) ==
    /\ threads[t].pc = "out"
    /\ threads[t].calls < RaceCalls
    /\ threads' = [threads EXCEPT ![t].pc = "test", ![t].built = FALSE,
                                  ![t].calls = @ + 1]
    /\ UNCHANGED <<counterVars, commitVars>>
    /\ UNCHANGED configVars

\* line 57: if self._encoding is None
RaceTest(t) ==
    /\ threads[t].pc = "test"
    /\ Moves(t, IF encoding = None THEN "construct" ELSE "return")
    /\ UNCHANGED <<counterVars, commitVars>>
    /\ UNCHANGED configVars

\* line 60, right-hand side: tiktoken.get_encoding returns or raises
RaceConstruct(t) ==
    /\ threads[t].pc = "construct"
    /\ threads' = [threads EXCEPT ![t].pc = IF tiktoken_ok THEN "store" ELSE "except",
                                  ![t].built = tiktoken_ok]
    /\ attempts' = IF attempts < MaxAttempts THEN attempts + 1 ELSE attempts
    /\ UNCHANGED <<provider, encoding, tiktoken_ok, args, call, prev>>
    /\ UNCHANGED commitVars
    /\ UNCHANGED configVars

\* line 60, assignment: self._encoding = <the handle>
RaceStore(t) ==
    /\ threads[t].pc = "store"
    /\ encoding' = CL100K
    /\ Moves(t, "return")
    /\ UNCHANGED <<provider, attempts, tiktoken_ok, args, call, prev>>
    /\ UNCHANGED commitVars
    /\ UNCHANGED configVars

\* lines 61-62: except Exception: self._encoding = None
RaceExcept(t) ==
    /\ threads[t].pc = "except"
    /\ encoding' = None
    /\ Moves(t, "return")
    /\ UNCHANGED <<provider, attempts, tiktoken_ok, args, call, prev>>
    /\ UNCHANGED commitVars
    /\ UNCHANGED configVars

\* line 63: return self._encoding
RaceReturn(t) ==
    /\ threads[t].pc = "return"
    /\ threads' = [threads EXCEPT ![t].pc = "out", ![t].ret = encoding]
    /\ UNCHANGED <<counterVars, commitVars>>
    /\ UNCHANGED configVars

NextRace ==
    \/ \E t \in Callers :
          \/ RaceEnter(t)
          \/ RaceTest(t)
          \/ RaceConstruct(t)
          \/ RaceStore(t)
          \/ RaceExcept(t)
          \/ RaceReturn(t)
    \/ EnvChange

SpecRace == InitRace /\ [][NextRace]_vars

(***************************************************************************)
(* A Config created on the default configuration and then driven through   *)
(* its setters (config.py lines 195-269), as `buildpost config set-key`    *)
(* and `buildpost config set-provider` drive it.                           *)
(***************************************************************************)
\* setter calls in one run
MaxConfigCalls == 4

\* provider names given to the setters: two of the table, one outside it
ConfigProviders == {"openai", "groq", "mistral"}

ConfigModels == {"gpt-4", ""}

ApiKeys == {"sk-a", "sk-b"}

\* os.environ: no key variable set, or those of openai and groq set
Environs ==
    {EmptyDict,
     [v \in {"OPENAI_API_KEY", "GROQ_API_KEY"} |->
         IF v = "OPENAI_API_KEY" THEN "sk-env-openai" ELSE "sk-env-groq"]}

InitConfig ==
    /\ args = RaceArgs
    /\ provider = args.provider
    /\ encoding = None
    /\ attempts = 0
    /\ tiktoken_ok \in BOOLEAN
    /\ call = NoCall
    /\ prev = NoCall
    /\ NoCommand
    /\ NoRace
    /\ config = DefaultConfig
    /\ environ \in Environs
    /\ stored = {}
    /\ config_calls = 0

ConfigCalled ==
    /\ config_calls < MaxConfigCalls
    /\ config_calls' = config_calls + 1
    /\ UNCHANGED <<counterVars, commitVars, raceVars, environ>>

ConfigSetProvider ==
    /\ ConfigCalled
    /\ \E p \in ConfigProviders : config' = SetProvider(config, p)
    /\ UNCHANGED stored

ConfigSetModel ==
    /\ ConfigCalled
    /\ \E p \in ConfigProviders, m \in ConfigModels : config' = SetModel(config, p, m)
    /\ UNCHANGED stored

ConfigSetApiKey ==
    /\ ConfigCalled
    /\ \E k \in ApiKeys, p \in ConfigProviders \cup {None} :
          /\ config' = SetApiKey(config, k, p)
          /\ stored' = stored \cup {<<ProviderOr(config, p), k>>}

NextConfig ==
    \/ ConfigSetProvider
    \/ ConfigSetModel
    \/ ConfigSetApiKey

SpecConfig == InitConfig /\ [][NextConfig]_vars

(***************************************************************************)
(* Vocabulary of the properties.                                           *)
(***************************************************************************)
TI == "truncate_intelligently"

\* the handle the call c measured with
HandleOf(c) == IF c.exact THEN CL100K ELSE None

\* count_tokens(t) as the call c measured it
Measured(c, t) == CountTokens(t, HandleOf(c)).value

EndsWith(t, s) ==
    /\ Len(t) >= Len(s)
    /\ SubSeq(t, Len(t) - Len(s) + 1, Len(t)) = s

\* the parts of t between its markers; the sections the loop walks over
Parts(t) == SplitOnMarker(t)

Sections(t) == FileParts(Parts(t))

\* the text returned when the first k sections are accepted and the rest cut
Assembled(t, k) ==
    Join(MARKER, <<EMPTY>> \o SubSeq(Sections(t), 1, k) \o <<SUFFIX_FILES>>)

\* f[lo] + ... + f[hi], halving the range
RECURSIVE SumRange(_, _, _)
SumRange(f, lo, hi) ==
    IF lo > hi THEN 0
    ELSE IF lo = hi THEN f[lo]
    ELSE LET mid == (lo + hi) \div 2
         IN  SumRange(f, lo, mid) + SumRange(f, mid + 1, hi)

SumMeasured(c, t, k) ==
    LET secs == Sections(t)
    IN  SumRange([j \in 1..k |-> Measured(c, MARKER \o secs[j])], 1, k)

OverBudget(c) == c.op = TI /\ ~c.raised /\ c.original_tokens > c.max_tokens

(***************************************************************************)
(* C1.  For every diff text with two or more 'diff --git' file sections    *)
(* whose token count exceeds max_tokens, the text truncate_intelligently   *)
(* returns has a re-measured token count final_tokens <= max_tokens.       *)
(* Stated on the budgets most favourable to it: max_tokens holds the       *)
(* truncation notice together with the first file section.                 *)
(***************************************************************************)
C1_BoundEnforced ==
    ( /\ OverBudget(call)
      /\ Len(Parts(call.input)) >= 3
      /\ Measured(call, SUFFIX_FILES) + SumMeasured(call, call.input, 1)
            <= call.max_tokens )
    => call.final_tokens <= call.max_tokens

(***************************************************************************)
(* C2.  For any text d and any max_tokens >= count_tokens(d),              *)
(* truncate_intelligently(d, max_tokens) returns (d, n, n) with            *)
(* n = count_tokens(d): the text is unmodified and original_tokens equals  *)
(* final_tokens; applying the call again to its own output, measured by    *)
(* the same estimator, returns the same triple.                            *)
(***************************************************************************)
UnderBudget(c) == c.op = TI /\ Measured(c, c.input) <= c.max_tokens

ReturnsUnchanged(c) ==
    /\ ~c.raised
    /\ c.text = c.input
    /\ c.original_tokens = Measured(c, c.input)
    /\ c.final_tokens = Measured(c, c.input)

SingleFile(t) == Len(Parts(t)) = 2 /\ Parts(t)[1] = EMPTY

C3_SingleFileRawTruncation ==
    (OverBudget(call) /\ SingleFile(call.input)) =>
        /\ call.path \in {"tokens", "chars"}
        /\ EndsWith(call.text, SUFFIX_GENERIC)

(***************************************************************************)
(* C4.  On the file-boundary path of truncate_intelligently no file        *)
(* section is emitted partially: cut at its markers, the returned text     *)
(* holds only parts that are byte-identical to parts of the input (and the *)
(* truncation notice); a section that does not fit is dropped entirely.    *)
(***************************************************************************)
FileBoundaryPath(c) == c.op = TI /\ c.path \in {"files", "all_files"}

WholePartOf(t, part) ==
    \/ part = EMPTY
    \/ part = SUFFIX_FILES
    \/ \E j \in 1..Len(Parts(t)) : part = Parts(t)[j]

C4_NoPartialSection ==
    FileBoundaryPath(call) =>
        \A k \in 1..Len(Parts(call.text)) :
            WholePartOf(call.input, Parts(call.text)[k])

(***************************************************************************)
(* C5.  The sections truncate_intelligently accepts are a contiguous       *)
(* leading run of the input's sections in their original order: once one   *)
(* section is rejected, it and every later section are discarded, even a   *)
(* later section that would still fit the remaining budget.                *)
(***************************************************************************)
C5_LeadingRun ==
    (call.op = TI /\ call.path = "files") =>
        \E k \in 0..(Len(Sections(call.input)) - 1) :
            call.text = Assembled(call.input, k)

\* the number of sections the returned text holds before the notice
AcceptedCount(c) == Len(Parts(c.text)) - 2

\* a section after the rejected one would have fitted the remaining budget
C5_Witness ==
    /\ call.op = TI
    /\ call.path = "files"
    /\ AcceptedCount(call) >= 1
    /\ \E j \in (AcceptedCount(call) + 2)..Len(Sections(call.input)) :
          SumMeasured(call, call.input, AcceptedCount(call))
            + Measured(call, MARKER \o Sections(call.input)[j])
            + Measured(call, SUFFIX_FILES) <= call.max_tokens

(***************************************************************************)
(* C6.  calculate_max_diff_tokens never returns less than 1000, for every  *)
(* provider, model, prompt style and every output_reserve,                 *)
(* files_list_reserve and safety_margin, including reservations whose sum  *)
(* exceeds the model's total limit.                                        *)
(***************************************************************************)
CALC == "calculate_max_diff_tokens"

C6_FloorOfBudget ==
    call.op = CALC => (~call.raised /\ call.value >= 1000)

\* the reservations alone exceed the largest context window of the table
C6_Witness ==
    /\ call.op = CALC
    /\ ~call.raised
    /\ args.output_reserve + args.files_list_reserve + args.safety_margin > 200000
    /\ call.value = 1000

(***************************************************************************)
(* C7.  For openai 'gpt-4' (limit 8192), prompt_style                      *)
(* 'commit_conventional', output_reserve 1500, files_list_reserve 100 and  *)
(* safety_margin 500, calculate_max_diff_tokens returns 5392, i.e. the     *)
(* prompt-size estimate used for 'commit_conventional' is 700.             *)
(***************************************************************************)
Gpt4Scenario ==
    /\ call.op = CALC
    /\ provider = "openai"
    /\ args.model = "gpt-4"
    /\ args.prompt_style = "commit_conventional"
    /\ args.output_reserve = 1500
    /\ args.files_list_reserve = 100
    /\ args.safety_margin = 500

C7_ScenarioReturns5392 ==
    Gpt4Scenario => (~call.raised /\ call.value = 5392)

\* C7 as amended: in that scenario the call returns 5492 = 8192 - 600 - 1500
\* - 100 - 500; the prompt-size estimate of 'commit_conventional' is 600.
C7_ScenarioReturns5492 ==
    Gpt4Scenario => (~call.raised /\ call.value = 5492)

C7_Witness == Gpt4Scenario /\ ~call.raised

(***************************************************************************)
(* C8.  get_model_limit returns exactly 8000, without raising, whenever    *)
(* the provider is not in the limits table or the model is not in that     *)
(* provider's table; for a known (provider, model) pair it returns that    *)
(* pair's table entry.                                                     *)
(***************************************************************************)
KnownPair(p, m) == p \in DOMAIN PROVIDER_LIMITS /\ m \in DOMAIN PROVIDER_LIMITS[p]

C8_ModelLimit ==
    call.op = "get_model_limit" =>
        /\ ~call.raised
        /\ KnownPair(provider, args.model) =>
              call.value = PROVIDER_LIMITS[provider][args.model]
        /\ ~KnownPair(provider, args.model) => call.value = 8000

\* a provider the table does not know, asked about a model another
\* provider's table holds
C8_Witness ==
    /\ call.op = "get_model_limit"
    /\ provider \notin DOMAIN PROVIDER_LIMITS
    /\ args.model = "gpt-4"
    /\ call.value = 8000

(***************************************************************************)
(* C9.  No operation of the core (count_tokens, get_model_limit,           *)
(* calculate_max_diff_tokens, truncate_to_limit, truncate_intelligently)   *)
(* ends in an error: for unknown models, unknown prompt styles, an         *)
(* unavailable tokenizer, a tokenizer whose encode or decode fails, and    *)
(* text with no diff structure, each call returns a value.                 *)
(***************************************************************************)
C9_NeverRaises == ~call.raised /\ call.path # "raise"

\* the handle is cached, encode raises on the text (it holds a special
\* token) and the call still returns a truncated text
C9_Witness ==
    /\ call.op \in {TI, "truncate_to_limit"}
    /\ call.exact
    /\ EncodeRaises(call.input)
    /\ call.path = "chars"
    /\ ~call.raised

(***************************************************************************)
(* C10.  count_tokens(text) always returns an integer >= 0; whenever the   *)
(* tokenizer handle is unavailable or encoding the text fails, the value   *)
(* is exactly len(text) // 3, and otherwise it is the length of the        *)
(* encoded token sequence.                                                 *)
(***************************************************************************)
C10_CountTokens ==
    call.op = "count_tokens" =>
        /\ ~call.raised
        /\ call.value \in Nat
        /\ (encoding = None \/ EncodeRaises(call.input)) =>
              call.value = Len(call.input) \div 3
        /\ (encoding # None /\ ~EncodeRaises(call.input)) =>
              call.value = Len(Encode(call.input))

\* the handle is there but encoding the text fails
C10_Witness ==
    /\ call.op = "count_tokens"
    /\ encoding # None
    /\ EncodeRaises(call.input)
    /\ call.value = Len(call.input) \div 3
    /\ call.value > 0

(***************************************************************************)
(* C11.  On the exact-tokenizer path of truncate_to_limit, max_tokens is a *)
(* hard ceiling: for every text whose token count exceeds max_tokens,      *)
(* every suffix and every max_tokens (those smaller than the suffix's own  *)
(* token count included), the returned final_tokens is <= max_tokens.      *)
(* The exact path is also the one truncate_intelligently takes through     *)
(* truncate_to_limit for a text with no file structure.                    *)
(***************************************************************************)
ExactPath(c) ==
    /\ c.op \in {"truncate_to_limit", TI}
    /\ ~c.raised
    /\ c.path = "tokens"

C11_ExactPathCeiling ==
    ExactPath(call) => call.final_tokens <= call.max_tokens

(***************************************************************************)
(* C12.  truncate_intelligently honours preserve_start: with               *)
(* preserve_start = False the end of an over-budget multi-file diff is     *)
(* kept (a retained file section is followed by the sections after it, so  *)
(* the last section is among them), and the output differs from the one    *)
(* preserve_start = True gives on the same diff and budget.                *)
(***************************************************************************)
LastSection(t) == Sections(t)[Len(Sections(t))]

\* what the same call returns with preserve_start = True
WithPreserveStart(c) ==
    TruncateIntelligently(c.input, c.max_tokens, TRUE, HandleOf(c), TRUE, FALSE)

C12_PreserveStartHonoured ==
    ( /\ OverBudget(call)
      /\ call.path = "files"
      /\ Len(Sections(call.input)) >= 2
      /\ ~args.preserve_start )
    => /\ call.text # WithPreserveStart(call).text
       /\ call.text # Assembled(call.input, 0)
             => Contains(call.text, MARKER \o LastSection(call.input))

(***************************************************************************)
(* C13.  Construction of the tokenizer handle is attempted at most once    *)
(* over any sequence of count_tokens / truncate_to_limit /                 *)
(* truncate_intelligently calls: a first attempt that fails is remembered  *)
(* as 'unavailable' and no later call attempts construction again.         *)
(***************************************************************************)
C13_ConstructionAttemptedOnce == attempts <= 1

(***************************************************************************)
(* C14.  In every run of the `commit` command, GitParser.commit_changes is *)
(* invoked only after a commit message has been generated and the user     *)
(* chose 'y', or chose 'e' and supplied a non-empty edited message; it is  *)
(* never invoked when --no-commit is given, when the user chooses 'n',     *)
(* when there are no staged changes, or when message generation failed.    *)
(* (And a run invokes it at most once.)                                    *)
(***************************************************************************)
Confirmed ==
    \/ locals.choice = "y"
    \/ /\ locals.choice = "e"
       /\ locals.edited_message # NoText
       /\ locals.edited_message # EMPTY

C14_CommitOnlyWhenConfirmed ==
    /\ commit_calls <= 1
    /\ commit_calls > 0 =>
          /\ call.op = TI /\ ~call.raised
          /\ locals.has_staged
          /\ locals.commit_message # NoText
          /\ ~opts.no_commit
          /\ Confirmed
    /\ pc = "commit" =>
          /\ locals.has_staged
          /\ locals.commit_message # NoText
          /\ ~opts.no_commit
          /\ Confirmed

\* a run that staged everything, had the message edited and committed it
C14_Witness ==
    /\ pc = "done"
    /\ commit_calls = 1
    /\ opts.stage_all
    /\ locals.choice = "e"
    /\ locals.commit_message = <<"d","o","c","s">>

(***************************************************************************)
(* C15.  On the file-boundary path, with segments s1..sn in input order    *)
(* and t(si) = count_tokens('diff --git' + si), segment k is accepted      *)
(* exactly when t(s1) + ... + t(sk) + suffix_tokens <= max_tokens and all  *)
(* earlier segments were accepted; so segments of which the first two fit  *)
(* with the suffix and the third does not (the spec's 2000/3000/4000 with  *)
(* max_tokens 5500) yield segments 1 and 2 plus the suffix.                *)
(***************************************************************************)
\* t(s1), ..., t(sn) as the call c measured them
SectionTokens(c) ==
    LET secs == Sections(c.input)
    IN  [j \in 1..Len(secs) |-> Measured(c, MARKER \o secs[j])]

C15_AcceptanceRule ==
    FileBoundaryPath(call) =>
        LET t == SectionTokens(call)
            n == Len(t)
            suffix_tokens == Measured(call, SUFFIX_FILES)
            \* the segments the returned text holds, in their places
            k == IF call.path = "all_files" THEN n ELSE AcceptedCount(call)
            accepted(j) == j <= k
            fits(j) == SumRange(t, 1, j) + suffix_tokens <= call.max_tokens
        IN  /\ call.path = "files" =>
                  k < n /\ call.text = Assembled(call.input, k)
            /\ \A j \in 1..n :
                  accepted(j) <=> (fits(j) /\ (j = 1 \/ accepted(j - 1)))

Fits(c, j) ==
    SumMeasured(c, c.input, j) + Measured(c, SUFFIX_FILES) <= c.max_tokens

\* three segments: the first two fit with the suffix, the third does not
C15_Witness ==
    /\ call.op = TI
    /\ call.path = "files"
    /\ Len(Sections(call.input)) = 3
    /\ Fits(call, 2)
    /\ ~Fits(call, 3)
    /\ call.text = Assembled(call.input, 2)

(***************************************************************************)
(* C16.  When truncate_intelligently truncates on the file-boundary path,  *)
(* the returned text is exactly the accepted segments in order, each       *)
(* introduced by its 'diff --git' marker, followed directly by the         *)
(* truncation notice: nothing else (no extra marker, no separator) is      *)
(* added, so the text before the notice is a byte-identical prefix of the  *)
(* input.                                                                  *)
(***************************************************************************)
\* the first k segments, each introduced by its marker
Introduced(t, k) ==
    IF k = 0 THEN EMPTY
    ELSE Join(MARKER, <<EMPTY>> \o SubSeq(Sections(t), 1, k))

IsPrefix(p, t) == Len(p) <= Len(t) /\ SubSeq(t, 1, Len(p)) = p

BeforeNotice(t) == SubSeq(t, 1, Len(t) - Len(SUFFIX_FILES))

C16_AcceptedThenNotice ==
    (call.op = TI /\ call.path = "files") =>
        /\ EndsWith(call.text, SUFFIX_FILES)
        /\ \E k \in 0..Len(Sections(call.input)) :
              BeforeNotice(call.text) = Introduced(call.input, k)
        /\ IsPrefix(BeforeNotice(call.text), call.input)

(***************************************************************************)
(* C17.  If the accumulation loop of truncate_intelligently completes      *)
(* without breaking (every segment fits), the returned text has no         *)
(* truncation notice and equals the input diff_text exactly, for every     *)
(* input, including input with text before its first 'diff --git' marker.  *)
(***************************************************************************)
LoopCompleted(c) == c.op = TI /\ ~c.raised /\ c.path = "all_files"

C17_AllFitReturnsInput ==
    LoopCompleted(call) =>
        /\ ~EndsWith(call.text, SUFFIX_FILES)
        /\ call.text = call.input

(***************************************************************************)
(* C18.  Whenever truncate_intelligently gets past the step-1 guard        *)
(* (original_tokens > max_tokens) on a text with per-file structure, the   *)
(* accumulation loop breaks: the returned text carries the truncation      *)
(* notice and is never the full over-budget input, under the exact         *)
(* estimator and under the len(text)//3 fallback alike.                    *)
(***************************************************************************)
PerFileStructure(t) == Len(Parts(t)) > 1

C18_LoopAlwaysBreaks ==
    (OverBudget(call) /\ PerFileStructure(call.input)) =>
        /\ call.path = "files"
        /\ EndsWith(call.text, SUFFIX_FILES)
        /\ call.text # call.input

(***************************************************************************)
(* C19.  For every diff text, the file segments truncate_intelligently     *)
(* measures ('diff --git' put back in front of each split part) do not     *)
(* overlap and, concatenated in order, give back the original text         *)
(* exactly, also when the text does not begin with the marker.             *)
(***************************************************************************)
\* the segments the loop measures (lines 228-229)
Segments(t) ==
    LET secs == Sections(t)
    IN  [j \in 1..Len(secs) |-> MARKER \o secs[j]]

C19_SegmentsReconstruct ==
    FileBoundaryPath(call) =>
        Join(EMPTY, Segments(call.input)) = call.input

(***************************************************************************)
(* C20.  On every return path of truncate_intelligently and                *)
(* truncate_to_limit, final_tokens is count_tokens of the returned text    *)
(* (measured again on the assembled output, never the running sum) and     *)
(* original_tokens is count_tokens of the input text.                      *)
(***************************************************************************)
Truncators == {TI, "truncate_to_limit"}

C20_CountsAreMeasured ==
    (call.op \in Truncators /\ ~call.raised) =>
        /\ call.final_tokens = Measured(call, call.text)
        /\ call.original_tokens = Measured(call, call.input)

\* the running sum the loop held when it broke, the notice included
RunningSum(c) ==
    SumMeasured(c, c.input, AcceptedCount(c)) + Measured(c, SUFFIX_FILES)

\* a file-boundary result whose new count is neither the running sum nor
\* the count of the input
C20_Witness ==
    /\ call.op = TI
    /\ call.path = "files"
    /\ AcceptedCount(call) >= 1
    /\ call.final_tokens = Measured(call, call.text)
    /\ call.final_tokens # RunningSum(call)
    /\ call.final_tokens # call.original_tokens

(***************************************************************************)
(* C21.  Once a call has constructed the tokenizer handle, every later     *)
(* count_tokens / truncate_to_limit / truncate_intelligently call on that  *)
(* TokenCounter uses that same handle: no later call constructs a new one  *)
(* and no sequence of calls resets the handle to unavailable.              *)
(***************************************************************************)
Tokenizing == {"count_tokens", "truncate_to_limit", TI}

HandleCached == encoding # None

C21_HandleReused ==
    [][HandleCached =>
          /\ encoding' = encoding
          /\ attempts' = attempts
          /\ (call' # call /\ call'.op \in Tokenizing) => call'.exact]_vars

\* a second call measured with the cached handle although the tokenizer
\* could no longer be constructed
C21_Witness ==
    /\ HandleCached
    /\ ~tiktoken_ok
    /\ prev.op = TI
    /\ prev.exact
    /\ call.op = TI
    /\ call.exact

(***************************************************************************)
(* C22.  When two callers race the lazy tokenizer initialisation on one    *)
(* TokenCounter, under every interleaving and with each construction       *)
(* attempt succeeding or failing on its own, a handle that has been        *)
(* cached is never overwritten with 'unavailable', and a caller whose own  *)
(* construction succeeded gets a usable handle back.                       *)
(***************************************************************************)
\* caller t comes back from the call in which it built the handle itself
ReturnsOwnBuild(t) ==
    /\ threads[t].pc = "return"
    /\ threads[t].built
    /\ threads'[t].pc = "out"

C22_RaceKeepsHandle ==
    [][/\ encoding # None => encoding' # None
       /\ \A t \in Callers : ReturnsOwnBuild(t) => threads'[t].ret # None]_vars

(***************************************************************************)
(* C23.  calculate_max_diff_tokens returns max(L - P - output_reserve -    *)
(* files_list_reserve - safety_margin, 1000), L being get_model_limit of   *)
(* the model and P the prompt-size table entry of prompt_style, or 700 for *)
(* a style the table lacks; when the caller omits them,                    *)
(* files_list_reserve is 100 and safety_margin is 500, and output_reserve  *)
(* has no built-in default: the caller must supply it.                     *)
(***************************************************************************)
Omitted(name) == name \in args.omits

\* the reservation the formula uses: the argument, or `otherwise`
Reserved(name, value, otherwise) == IF Omitted(name) THEN otherwise ELSE value

Budget(output_reserve) ==
    LET L == GetModelLimit(provider, args.model).value
        P == IF args.prompt_style \in DOMAIN PROMPT_SIZES
             THEN PROMPT_SIZES[args.prompt_style] ELSE 700
        files_list_reserve == Reserved("files_list_reserve", args.files_list_reserve, 100)
        safety_margin == Reserved("safety_margin", args.safety_margin, 500)
        B == L - P - output_reserve - files_list_reserve - safety_margin
    IN  IF B >= 1000 THEN B ELSE 1000

C23_NoDefaultOutputReserve ==
    call.op = CALC =>
        IF Omitted("output_reserve") THEN call.raised
        ELSE ~call.raised /\ call.value = Budget(args.output_reserve)

\* C23 as amended: the same formula and defaults, and output_reserve is 1000
\* when the caller omits it.
C23_BudgetWithDefaults ==
    call.op = CALC =>
        /\ ~call.raised
        /\ call.value = Budget(Reserved("output_reserve", args.output_reserve, 1000))

\* every reservation omitted, a style the table lacks, the floor not applied
C23_Witness ==
    /\ call.op = CALC
    /\ args.omits = Reservations
    /\ args.prompt_style \notin DOMAIN PROMPT_SIZES
    /\ call.value = 8192 - 700 - 1000 - 100 - 500

(***************************************************************************)
(* C24.  calculate_max_diff_tokens and get_model_limit are pure: a call    *)
(* leaves the TokenCounter's provider and its cached tokenizer handle      *)
(* unchanged, never triggers tokenizer construction, and returns a value   *)
(* fixed by its arguments and the provider, whatever calls happened        *)
(* before it.                                                              *)
(***************************************************************************)
PureOps == {CALC, "get_model_limit"}

\* the value the arguments and the provider fix, read off the tables
ValueOfArgs(op) ==
    IF op = CALC
    THEN Budget(Reserved("output_reserve", args.output_reserve, 1000))
    ELSE IF KnownPair(provider, args.model)
         THEN PROVIDER_LIMITS[provider][args.model]
         ELSE 8000

C24_PureLookups ==
    [][(call' # call /\ call'.op \in PureOps) =>
          /\ provider' = provider
          /\ encoding' = encoding
          /\ attempts' = attempts
          /\ ~call'.raised
          /\ call'.value = ValueOfArgs(call'.op)]_vars

\* the budget asked for after a tokenizing call has cached the handle
C24_Witness ==
    /\ call.op = CALC
    /\ encoding = CL100K
    /\ attempts = 1
    /\ call.value = ValueOfArgs(CALC)
    /\ call.value > 1000

(***************************************************************************)
(* C25.  After any sequence of Config.set_provider and Config.set_model    *)
(* calls starting from the default configuration, the legacy single-model  *)
(* field api.model equals the model configured for the active provider     *)
(* (api.models[api.provider]), and get_model() with no argument returns    *)
(* that same value.                                                        *)
(***************************************************************************)
\* no set_api_key so far: only set_provider and set_model were called
OnlyProviderAndModel == stored = {}

OwnEnvKey(p) ==
    IF p \in DOMAIN PROVIDER_ENV_VARS
    THEN DictGet(environ, PROVIDER_ENV_VARS[p], None)
    ELSE None

KeyIsOwn(p, k) == k = None \/ <<p, k>> \in stored \/ k = OwnEnvKey(p)

C29_KeyOfOwnProvider ==
    \A p \in ConfigProviders : KeyIsOwn(p, GetApiKey(config, environ, p))

(***************************************************************************)
(* C26.  Under the character-ratio fallback of truncate_to_limit (no       *)
(* tokenizer, so count_tokens is len(text)//3 throughout), for every text  *)
(* with count_tokens(text) > max_tokens and every suffix with              *)
(* 0 <= count_tokens(suffix) <= max_tokens, final_tokens may exceed        *)
(* max_tokens but never by more than one token.                            *)
(***************************************************************************)
\* the suffix truncate_to_limit was given: the caller's, or the generic
\* notice when truncate_intelligently calls it (line 216)
SuffixOf(c) == IF c.op = TI THEN SUFFIX_GENERIC ELSE args.suffix

CharRatioFallback(c) ==
    /\ c.op \in Truncators
    /\ ~c.raised
    /\ c.path = "chars"
    /\ ~c.exact
    /\ c.original_tokens > c.max_tokens
    /\ EstimateTokens(SuffixOf(c)) <= c.max_tokens

C26_OvershootAtMostOne ==
    CharRatioFallback(call) => call.final_tokens <= call.max_tokens + 1

\* the cut overshoots, by exactly one token
C26_Witness ==
    /\ CharRatioFallback(call)
    /\ call.op = "truncate_to_limit"
    /\ call.final_tokens = call.max_tokens + 1

(***************************************************************************)
(* C27.  For non-negative reservations, the total allocation               *)
(* B + P + output_reserve + files_list_reserve + safety_margin (B the      *)
(* result of calculate_max_diff_tokens, P the prompt-size estimate) equals *)
(* the model limit exactly whenever the floor is not applied, and strictly *)
(* exceeds the model limit exactly when the floor raised the result to     *)
(* 1000; in every case B is strictly less than the model limit.            *)
(***************************************************************************)
\* the reservations calculate_max_diff_tokens worked with
OutputReserve == Reserved("output_reserve", args.output_reserve, 1000)

FilesListReserve == Reserved("files_list_reserve", args.files_list_reserve, 100)

SafetyMargin == Reserved("safety_margin", args.safety_margin, 500)

PromptSize ==
    IF args.prompt_style \in DOMAIN PROMPT_SIZES
    THEN PROMPT_SIZES[args.prompt_style] ELSE 700

ModelLimit == GetModelLimit(provider, args.model).value

\* B + P + output_reserve + files_list_reserve + safety_margin
TotalAllocation == call.value + PromptSize + OutputReserve + FilesListReserve + SafetyMargin

\* the floor raised the result: the unfloored difference is below 1000
FloorRaised == ModelLimit - PromptSize - OutputReserve - FilesListReserve - SafetyMargin < 1000

NonNegativeReservations == OutputReserve >= 0 /\ FilesListReserve >= 0 /\ SafetyMargin >= 0

C27_AllocationAgainstLimit ==
    (call.op = CALC /\ ~call.raised /\ NonNegativeReservations) =>
        /\ ~FloorRaised => TotalAllocation = ModelLimit
        /\ FloorRaised <=> TotalAllocation > ModelLimit
        /\ call.value < ModelLimit

\* the floor raised the result and the allocation exceeds the limit
C27_Witness ==
    /\ call.op = CALC
    /\ ~call.raised
    /\ FloorRaised
    /\ call.value = 1000
    /\ TotalAllocation > ModelLimit

(***************************************************************************)
(* C28.  When truncate_intelligently truncates a diff with per-file        *)
(* structure, the output retains at least the first file segment if and    *)
(* only if count_tokens('diff --git' + first segment) + suffix_tokens <=   *)
(* max_tokens; when the first segment does not fit, the output holds no    *)
(* content of the input at all, only a marker and the truncation notice,   *)
(* even though max_tokens > 0.                                             *)
(***************************************************************************)
\* the loop broke: the diff was cut at a file boundary
TruncatedAtFile(c) == OverBudget(c) /\ PerFileStructure(c.input) /\ c.path = "files"

FirstSegment(t) == MARKER \o Sections(t)[1]

FirstSegmentFits(c) ==
    Measured(c, FirstSegment(c.input)) + Measured(c, SUFFIX_FILES) <= c.max_tokens

\* the output begins with the first segment, whole, and goes on with the
\* marker that introduces what was joined after it
RetainsFirstSegment(c) == IsPrefix(FirstSegment(c.input) \o MARKER, c.text)

C28_FirstSegmentRule ==
    TruncatedAtFile(call) =>
        /\ RetainsFirstSegment(call) <=> FirstSegmentFits(call)
        /\ ~FirstSegmentFits(call) => call.text = MARKER \o SUFFIX_FILES

\* a positive budget that the first segment does not fit
C28_Witness ==
    /\ TruncatedAtFile(call)
    /\ call.max_tokens > 0
    /\ ~FirstSegmentFits(call)
    /\ call.text = MARKER \o SUFFIX_FILES

====
